---- MODULE Spec2Model ----
(***************************************************************************)
(* Model of src/src/logger/index.ts (oxmysql logger): the in-memory query  *)
(* log (logStorage, logQuery), the dashboard page handler                  *)
(* (oxmysql:fetchResource, sortQueries), the summary command ('mysql'),    *)
(* the error report (logError) and the profiler bracket (runProfiler,      *)
(* profileBatchStatements).                                                *)
(*                                                                         *)
(* Strings that the code inspects (query texts, search strings) are        *)
(* sequences of UTF-16 code units, so that toLowerCase, includes and the   *)
(* relational comparison of strings are computed as JavaScript computes    *)
(* them. Execution times are integers in units of 0.0001 ms, the           *)
(* resolution of FORMAT(..., 4).                                           *)
(***************************************************************************)
EXTENDS Integers, Sequences, FiniteSets, TLC

VARIABLES
  mysql_ui,                  \* config: dashboard enabled
  mysql_debug,               \* config: FALSE, TRUE or an allow-list of resources
  mysql_log_size,            \* config: per-resource log capacity
  mysql_slow_query_warning,  \* config: slow-query threshold
  now,                       \* the clock Date.now() reads: one tick per operation a caller starts
  conn,                      \* per pool connection: the profiler bracket running on it
  logStorage,                \* the log store: keys in insertion order, each with its QueryData[]
  appended,                  \* history: every record ever pushed, per resource, in order
  request,                   \* the event the last handler run was given
  outcome,                   \* how the last handler run ended
  emitted,                   \* what the last handler run passed to emitNet
  sortedView,                \* the list the last handler run sliced its page from
  logCalls,                  \* the logQuery calls of the last handler run, in order
  console,                   \* what the last handler run printed: the logQuery calls that
                             \* printed, [log |-> text] and [error |-> text] records
  triggered,                 \* the events the last handler run passed to TriggerEvent
  called                     \* the calls the last handler run made to the callback it was given

vars == <<mysql_ui, mysql_debug, mysql_log_size, mysql_slow_query_warning, now, conn,
          logStorage, appended, request, outcome, emitted, sortedView, logCalls, console,
          triggered, called>>

config == <<mysql_ui, mysql_debug, mysql_log_size, mysql_slow_query_warning>>

(***************************************************************************)
(* Bounds of the model.                                                    *)
(***************************************************************************)
MaxLogSize == 1     \* largest configured mysql_log_size of Spec
MaxAppends == 3     \* logQuery calls in one run of Spec
MaxPage == 1        \* largest pageIndex a request of Spec carries
MaxBrackets == 1    \* profiler brackets in one run of SpecProf
MaxRows == 2        \* profiler rows the engine returns for one batch
MaxBatch == 2       \* statements, or parameter sets, of one batch
MaxOffset == 1      \* largest offset a correlation is asked for
StoreAppends == 4   \* logQuery calls in one run of SpecStore
ErrAppends == 2     \* logQuery calls in one run of SpecErr
ConcBrackets == 2   \* profiler brackets in one run of SpecConc
OffCalls == 2       \* logQuery calls and profiler brackets in one run of SpecOff
PageLogSize == 11   \* mysql_log_size of SpecPage
PageAppends == 13   \* logQuery calls in one run of SpecPage
PageMaxPage == 2    \* largest pageIndex a request of SpecPage carries

Resources == {"r1", "r2"}

\* Query texts: "a", "AB"
Queries == { <<97>>, <<65, 66>> }

\* Execution times around the slow threshold
Times == {1, 2}

SlowWarnings == {2}

\* 200 ms, in units of 0.0001 ms
ProfSlowWarnings == {2000000}

Min(S) == CHOOSE x \in S : \A y \in S : x <= y

MinOf(a, b) == IF a <= b THEN a ELSE b

MaxOf(a, b) == IF a >= b THEN a ELSE b

(***************************************************************************)
(* JavaScript primitives the handlers use.                                 *)
(***************************************************************************)
\* String.prototype.toLowerCase on ASCII code units
toLowerCase(s) == [i \in 1..Len(s) |-> IF s[i] >= 65 /\ s[i] <= 90 THEN s[i] + 32 ELSE s[i]]

\* String.prototype.includes
includes(s, sub) ==
  \E k \in 0..Len(s) : k + Len(sub) <= Len(s) /\ SubSeq(s, k + 1, k + Len(sub)) = sub

\* a > b on strings: comparison of code units, a proper prefix being smaller
StrGreater(a, b) ==
  LET n == MinOf(Len(a), Len(b))
      diff == {i \in 1..n : a[i] # b[i]}
  IN IF diff = {} THEN Len(a) > Len(b) ELSE a[Min(diff)] > b[Min(diff)]

slice_EndInclusive(arr, start, end) == SubSeq(arr, start + 1, MinOf(end + 1, Len(arr)))

\* Array.prototype.slice(start, end) for 0 <= start <= end
slice(arr, start, end) == SubSeq(arr, start + 1, MinOf(end, Len(arr)))

\* Array.prototype.filter
RECURSIVE filter(_, _)
filter(arr, search) ==
  IF arr = <<>> THEN <<>>
  ELSE (IF includes(toLowerCase(Head(arr).query), search) THEN <<Head(arr)>> ELSE <<>>)
       \o filter(Tail(arr), search)

\* Math.ceil(n / 10)
ceilDiv10(n) == (n + 9) \div 10

RemoveAt(arr, i) == SubSeq(arr, 1, i - 1) \o SubSeq(arr, i + 1, Len(arr))

reverse(arr) == [i \in 1..Len(arr) |-> arr[Len(arr) + 1 - i]]

(***************************************************************************)
(* The log store. logStorage is a JavaScript object: its keys keep the     *)
(* order of their first insertion.                                         *)
(***************************************************************************)
Keys == {logStorage[i].resource : i \in 1..Len(logStorage)}

KeyIndex(store, r) == CHOOSE i \in 1..Len(store) : store[i].resource = r

HasKey(store, r) == \E i \in 1..Len(store) : store[i].resource = r

\* logStorage[r], for a key that is present
Log(store, r) == store[KeyIndex(store, r)].queries

\* the log a reader sees: empty for a key that is absent
LogOrEmpty(store, r) == IF HasKey(store, r) THEN Log(store, r) ELSE <<>>

QueryData_StrictlyAbove(query, executionTime) ==
  [query |-> query, executionTime |-> executionTime, date |-> now,
   slow |-> executionTime > mysql_slow_query_warning]

\* the record pushed at lines 117-122
QueryData(query, executionTime) ==
  [query |-> query, executionTime |-> executionTime, date |-> now,
   slow |-> executionTime >= mysql_slow_query_warning]

\* line 115: the condition under which the oldest record is spliced off
MustEvict(len) == len > mysql_log_size

Push_EvictNewest(store, r, rec) ==
  IF ~HasKey(store, r)
  THEN Append(store, [resource |-> r, queries |-> <<rec>>])
  ELSE LET i == KeyIndex(store, r)
           old == store[i].queries
           kept == IF MustEvict(Len(old)) THEN SubSeq(old, 1, Len(old) - 1) ELSE old
       IN [store EXCEPT ![i].queries = Append(kept, rec)]

Push_SharedEviction(store, r, rec) ==
  IF ~HasKey(store, r)
  THEN Append(store, [resource |-> r, queries |-> <<rec>>])
  ELSE LET i == KeyIndex(store, r)
           evicted == IF MustEvict(Len(store[i].queries))
                      THEN [store EXCEPT ![1].queries = Tail(@)] ELSE store
       IN [evicted EXCEPT ![i].queries = Append(@, rec)]

\* lines 114-122: the store after one push
Push(store, r, rec) ==
  IF ~HasKey(store, r)
  THEN Append(store, [resource |-> r, queries |-> <<rec>>])
  ELSE LET i == KeyIndex(store, r)
           old == store[i].queries
           kept == IF MustEvict(Len(old)) THEN Tail(old) ELSE old
       IN [store EXCEPT ![i].queries = Append(kept, rec)]

\* truthiness of mysql_debug: an array is truthy even when empty
Truthy(debug) == debug.isArray \/ debug.on

\* lines 101-110: whether the query is printed
Printed(r, executionTime) ==
  \/ executionTime >= mysql_slow_query_warning
  \/ /\ Truthy(mysql_debug)
     /\ (~mysql_debug.isArray \/ r \in mysql_debug.list)

\* What one handler run leaves behind, besides the store.
effects == <<request, outcome, emitted, sortedView, logCalls, console, triggered, called>>

NoEffects ==
  /\ request' = <<>>
  /\ emitted' = <<>>
  /\ sortedView' = <<>>
  /\ logCalls' = <<>>
  /\ console' = <<>>
  /\ triggered' = <<>>
  /\ called' = <<>>

\* The host hands the next event to a handler once the last one has run to
\* completion and its effects have been taken.
Idle ==
  /\ outcome # "idle"
  /\ outcome' = "idle"
  /\ NoEffects
  /\ UNCHANGED <<config, now, conn, logStorage, appended>>

logQuery_IgnoresUi(w, invokingResource, query, executionTime, parameters) ==
  LET call == [resource |-> invokingResource, query |-> query,
               executionTime |-> executionTime, parameters |-> parameters]
      rec == QueryData(query, executionTime)
  IN [w EXCEPT !.calls = Append(@, call),
               !.console = IF Printed(invokingResource, executionTime)
                           THEN Append(@, call) ELSE @,
               !.store = Push(@, invokingResource, rec),
               !.hist = [@ EXCEPT ![invokingResource] = Append(@, rec)]]

(***************************************************************************)
(* logQuery, lines 95-123, as a function of the world it runs in:          *)
(* w.store is logStorage, w.hist the history of pushes, w.calls the calls  *)
(* made so far and w.console the lines printed so far.                     *)
(***************************************************************************)
logQuery(w, invokingResource, query, executionTime, parameters) ==
  LET call == [resource |-> invokingResource, query |-> query,
               executionTime |-> executionTime, parameters |-> parameters]
      rec == QueryData(query, executionTime)
      w1 == [w EXCEPT !.calls = Append(@, call),
                      !.console = IF Printed(invokingResource, executionTime)
                                  THEN Append(@, call) ELSE @]
  IN IF ~mysql_ui THEN w1
     ELSE [w1 EXCEPT !.store = Push(@, invokingResource, rec),
                     !.hist = [@ EXCEPT ![invokingResource] = Append(@, rec)]]

World == [store |-> logStorage, hist |-> appended, calls |-> <<>>, console |-> <<>>]

\* Parameter lists a caller passes: none, or one named value
Params == { <<>>, <<"p">> }

\* A query executed outside a profiled batch is logged by its caller.
LogQuery(r, q, t, p) ==
  /\ outcome = "idle"
  /\ LET w == logQuery(World, r, q, t, p)
     IN /\ logStorage' = w.store
        /\ appended' = w.hist
        /\ logCalls' = w.calls
        /\ console' = w.console
  /\ request' = <<>>
  /\ outcome' = "logged"
  /\ emitted' = <<>>
  /\ sortedView' = <<>>
  /\ now' = now + 1
  /\ UNCHANGED <<config, conn, triggered, called>>

(***************************************************************************)
(* sortQueries, lines 164-177. Array.prototype.sort is stable when the     *)
(* comparator is consistent. The comparator of 'query' never answers 0:    *)
(* for two records of equal text it answers -1 both ways, and the order    *)
(* sort leaves such records in is implementation-defined (ECMA-262), so    *)
(* every order of them is an outcome.                                      *)
(***************************************************************************)
\* lines 165-174: the comparator
compare(a, b, id) ==
  CASE id = "query" -> IF StrGreater(a.query, b.query) THEN 1 ELSE -1
    [] id = "executionTime" -> a.executionTime - b.executionTime
    [] OTHER -> 0

\* arr[j] comes before arr[i] in every outcome of the sort
MustPrecede(arr, j, i, id) ==
  LET c == compare(arr[j], arr[i], id)
      d == compare(arr[i], arr[j], id)
  IN \/ c < 0 /\ d > 0
     \/ c = 0 /\ d = 0 /\ j < i

Firsts(arr, id) ==
  {i \in 1..Len(arr) : \A j \in 1..Len(arr) : j # i => ~MustPrecede(arr, j, i, id)}

RECURSIVE SortOutcomes(_, _)
SortOutcomes(arr, id) ==
  IF arr = <<>> THEN {<<>>}
  ELSE UNION { {<<arr[i]>> \o rest : rest \in SortOutcomes(RemoveAt(arr, i), id)}
               : i \in Firsts(arr, id) }

ArgumentAfterSort_InPlace(queries, sortedQueries) == sortedQueries

\* line 165: sort, and reverse at line 176, work on the copy [...queries]; the
\* array that was passed in is, after the call, what it was before
ArgumentAfterSort(queries, sortedQueries) == queries

\* line 176
sortQueries(queries, sort) ==
  {IF sort.desc THEN reverse(sorted) ELSE sorted : sorted \in SortOutcomes(queries, sort.id)}

\* lines 203-212: the aggregates over resourceLog
RECURSIVE SumTime(_)
SumTime(arr) == IF arr = <<>> THEN 0 ELSE Head(arr).executionTime + SumTime(Tail(arr))

RECURSIVE CountSlow(_)
CountSlow(arr) ==
  IF arr = <<>> THEN 0 ELSE (IF Head(arr).slow THEN 1 ELSE 0) + CountSlow(Tail(arr))

ViewResponse_AggregatesOfPage(queries, resourceLog) ==
  [queries |-> queries,
   pageCount |-> ceilDiv10(Len(resourceLog)),
   resourceQueriesCount |-> Len(queries),
   resourceSlowQueries |-> CountSlow(queries),
   resourceTime |-> SumTime(queries)]

\* lines 203-220: the payload of oxmysql:loadResource
ViewResponse(queries, resourceLog) ==
  [queries |-> queries,
   pageCount |-> ceilDiv10(Len(resourceLog)),
   resourceQueriesCount |-> Len(resourceLog),
   resourceSlowQueries |-> CountSlow(resourceLog),
   resourceTime |-> SumTime(resourceLog)]

(***************************************************************************)
(* The handler of oxmysql:fetchResource, lines 179-222. data.search and    *)
(* data.sortBy are <<>> when absent: an absent and an empty value take the *)
(* same branch at lines 189, 191 and 195.                                  *)
(***************************************************************************)
fetchResource(data) ==
  /\ outcome = "idle"
  /\ request' = data
  /\ logCalls' = <<>>
  /\ console' = <<>>
  /\ UNCHANGED <<config, now, conn, appended, triggered, called>>
  /\ IF ~data.resourceIsString \/ ~data.aceAllowed
     THEN \* line 187
          /\ outcome' = "returned"
          /\ emitted' = <<>>
          /\ sortedView' = <<>>
          /\ logStorage' = logStorage
     ELSE LET search == IF data.search # <<>> THEN toLowerCase(data.search) ELSE data.search
          IN IF ~HasKey(logStorage, data.resource)
             THEN \* logStorage[data.resource] is undefined: .filter (line 192),
                  \* [...queries] (line 165) or .slice (line 198) throws a TypeError
                  /\ outcome' = "threw"
                  /\ emitted' = <<>>
                  /\ sortedView' = <<>>
                  /\ logStorage' = logStorage
             ELSE LET stored == Log(logStorage, data.resource)
                      resourceLog == IF search # <<>> THEN filter(stored, search) ELSE stored
                      startRow == data.pageIndex * 10
                      endRow == startRow + 10
                  IN \E sorted \in (IF data.sortBy # <<>>
                                     THEN sortQueries(resourceLog, data.sortBy[1])
                                     ELSE {resourceLog}) :
                       \* line 201 never returns: an array is truthy
                       /\ sortedView' = sorted
                       /\ emitted' = <<ViewResponse(slice(sorted, startRow, endRow), resourceLog)>>
                       /\ outcome' = "emitted"
                       \* without a search resourceLog is the stored array itself
                       \* (line 193), the one sortQueries is given
                       /\ logStorage' =
                            IF data.sortBy # <<>> /\ search = <<>>
                            THEN [logStorage EXCEPT
                                    ![KeyIndex(logStorage, data.resource)].queries =
                                      ArgumentAfterSort(resourceLog, sorted)]
                            ELSE logStorage

Sorts ==
  {<<>>} \cup {<<[id |-> id, desc |-> desc]>> : id \in {"query", "executionTime"}, desc \in BOOLEAN}

\* Search strings: none, "B"
Searches == { <<>>, <<66>> }

\* The requests of an allowed caller, and the requests line 187 turns away
ViewRequests(maxPage) ==
  [resource : Resources, resourceIsString : {TRUE}, aceAllowed : {TRUE},
   pageIndex : 0..maxPage, search : Searches, sortBy : Sorts]
  \cup
  {[resource |-> r, resourceIsString |-> t[1], aceAllowed |-> t[2],
    pageIndex |-> 0, search |-> q, sortBy |-> <<>>] :
      r \in Resources, q \in Searches,
      t \in {<<FALSE, FALSE>>, <<FALSE, TRUE>>, <<TRUE, FALSE>>}}

FetchResource == \E data \in ViewRequests(MaxPage) : fetchResource(data)

PageFetchResource == \E data \in ViewRequests(PageMaxPage) : fetchResource(data)

(***************************************************************************)
(* The command 'mysql', lines 125-162. It is registered as restricted      *)
(* (line 161): the host runs the handler only for a source that holds the  *)
(* command's ace; the server console, source 0, holds every ace.           *)
(***************************************************************************)
\* lines 141-151: the loop over the keys of logStorage, from the i-th key on
RECURSIVE summarize(_, _, _)
summarize(store, i, acc) ==
  IF i > Len(store) THEN acc
  ELSE LET resource == store[i].resource
           queries == store[i].queries
           totalResourceTime == SumTime(queries)
       IN summarize(store, i + 1,
            [totalQueries |-> acc.totalQueries + Len(queries),
             totalTime |-> acc.totalTime + SumTime(queries),
             slowQueries |-> acc.slowQueries + CountSlow(queries),
             chartData |->
               [labels |-> Append(acc.chartData.labels, resource),
                data |-> Append(acc.chartData.data,
                                [queries |-> Len(queries), time |-> totalResourceTime])]])

\* Object.keys(logStorage)
ObjectKeys(store) == [i \in 1..Len(store) |-> store[i].resource]

Summary_RunningChartTime(store) ==
  LET sums == summarize(store, 1,
                [totalQueries |-> 0, totalTime |-> 0, slowQueries |-> 0,
                 chartData |-> [labels |-> <<>>, data |-> <<>>]])
  IN [resources |-> ObjectKeys(store),
      totalQueries |-> sums.totalQueries,
      slowQueries |-> sums.slowQueries,
      totalTime |-> sums.totalTime,
      chartData |->
        [labels |-> sums.chartData.labels,
         data |-> [i \in 1..Len(store) |->
                    [queries |-> sums.chartData.data[i].queries,
                     time |-> summarize(SubSeq(store, 1, i), 1,
                                [totalQueries |-> 0, totalTime |-> 0, slowQueries |-> 0,
                                 chartData |-> [labels |-> <<>>, data |-> <<>>]]).totalTime]]]]

\* lines 136-159: the payload of oxmysql:openUi
Summary(store) ==
  LET sums == summarize(store, 1,
                [totalQueries |-> 0, totalTime |-> 0, slowQueries |-> 0,
                 chartData |-> [labels |-> <<>>, data |-> <<>>]])
  IN [resources |-> ObjectKeys(store),
      totalQueries |-> sums.totalQueries,
      slowQueries |-> sums.slowQueries,
      totalTime |-> sums.totalTime,
      chartData |-> sums.chartData]

\* line 132
ServerSideNotice == "^3This command cannot run server side^0"

\* Somebody enters the command: cmd.source is the player's id, or 0 for the
\* server console; cmd.aceAllowed whether the source holds command.mysql.
mysql(cmd) ==
  /\ outcome = "idle"
  /\ request' = cmd
  /\ sortedView' = <<>>
  /\ logCalls' = <<>>
  /\ UNCHANGED <<config, now, conn, logStorage, appended, triggered, called>>
  /\ IF ~cmd.aceAllowed
     THEN \* line 161: the host does not run the handler
          /\ outcome' = "denied"
          /\ emitted' = <<>>
          /\ console' = <<>>
     ELSE IF ~mysql_ui
     THEN \* line 128
          /\ outcome' = "rejected"
          /\ emitted' = <<>>
          /\ console' = <<>>
     ELSE IF cmd.source < 1
     THEN \* lines 130-134
          /\ outcome' = "rejected"
          /\ emitted' = <<>>
          /\ console' = <<[log |-> <<ServerSideNotice>>]>>
     ELSE /\ outcome' = "summarised"
          /\ emitted' = <<[target |-> cmd.source, payload |-> Summary(logStorage)]>>
          /\ console' = <<>>

\* The sources of the command: the server console, a player with the ace and a
\* player without it
Commands ==
  {[source |-> 0, aceAllowed |-> TRUE],
   [source |-> 1, aceAllowed |-> TRUE],
   [source |-> 1, aceAllowed |-> FALSE]}

Mysql == \E cmd \in Commands : mysql(cmd)

Debugs ==
  {[isArray |-> FALSE, on |-> FALSE, list |-> {}],
   [isArray |-> FALSE, on |-> TRUE, list |-> {}],
   [isArray |-> TRUE, on |-> FALSE, list |-> {"r1"}]}

NoBatch ==
  [isString |-> TRUE, text |-> <<>>, statements |-> <<>>, hasParameters |-> FALSE,
   parameters |-> <<>>]

\* a pool connection before its first bracket: the engine's session defaults
FreeConnection ==
  [pc |-> "free", k |-> 0, hasProfiler |-> FALSE, invokingResource |-> "",
   batch |-> NoBatch, offset |-> 0, profiler |-> <<>>, issued |-> <<>>,
   profiling |-> 0, historySize |-> 15]

InitState ==
  /\ now = 0
  /\ conn = [c \in {"c1"} |-> FreeConnection]
  /\ logStorage = <<>>
  /\ appended = [r \in Resources |-> <<>>]
  /\ request = <<>>
  /\ outcome = "idle"
  /\ emitted = <<>>
  /\ sortedView = <<>>
  /\ logCalls = <<>>
  /\ console = <<>>
  /\ triggered = <<>>
  /\ called = <<>>

Init ==
  /\ mysql_ui \in BOOLEAN
  /\ mysql_log_size \in 1..MaxLogSize
  /\ mysql_debug \in Debugs
  /\ mysql_slow_query_warning \in SlowWarnings
  /\ InitState

AppendQuery ==
  /\ now < MaxAppends
  /\ \E r \in Resources, q \in Queries, t \in Times, p \in Params : LogQuery(r, q, t, p)

Next ==
  \/ AppendQuery
  \/ FetchResource
  \/ Mysql
  \/ Idle

Spec == Init /\ [][Next]_vars

(***************************************************************************)
(* SpecPage: one resource logs a fixed stream of statements until its log  *)
(* spans more than one page of 10. The n-th statement (from 0) has a text  *)
(* of two letters, the first one different for every n, the second "B"     *)
(* except for n = 7 (mod 12), where it is "x"; its time runs over 1..4.    *)
(***************************************************************************)
PageQuery(n) == <<99 + ((n * 5) % 13), IF n % 12 = 7 THEN 120 ELSE 66>>

PageTime(n) == ((n * 7) % 4) + 1

PageSlowWarnings == {2, 4}

PageInit ==
  /\ mysql_ui = TRUE
  /\ mysql_log_size = PageLogSize
  /\ mysql_debug \in Debugs
  /\ mysql_slow_query_warning \in PageSlowWarnings
  /\ InitState

PageAppendQuery ==
  /\ now < PageAppends
  /\ LogQuery("r1", PageQuery(now), PageTime(now), <<>>)

PageNext ==
  \/ PageAppendQuery
  \/ PageFetchResource
  \/ Idle

SpecPage == PageInit /\ [][PageNext]_vars

(***************************************************************************)
(* SpecStore: appends to two resources while the configured slow-query     *)
(* threshold changes between calls. mysql_slow_query_warning is a binding  *)
(* imported from ../config: logQuery reads its current value at each call. *)
(***************************************************************************)
\* Execution times on both sides of, and equal to, the thresholds
StoreTimes == {2, 3}

StoreSlowWarnings == {2, 3}

\* the configuration gives the threshold another value
SetSlowQueryWarning(v) ==
  /\ outcome = "idle"
  /\ v # mysql_slow_query_warning
  /\ mysql_slow_query_warning' = v
  /\ UNCHANGED <<mysql_ui, mysql_debug, mysql_log_size, now, conn, logStorage, appended, effects>>

StoreInit ==
  /\ mysql_ui = TRUE
  /\ mysql_log_size \in 1..MaxLogSize
  /\ mysql_debug = [isArray |-> FALSE, on |-> FALSE, list |-> {}]
  /\ mysql_slow_query_warning \in StoreSlowWarnings
  /\ InitState

StoreAppendQuery ==
  /\ now < StoreAppends
  /\ \E r \in Resources, t \in StoreTimes : LogQuery(r, <<97>>, t, <<>>)

StoreNext ==
  \/ StoreAppendQuery
  \/ \E v \in StoreSlowWarnings : SetSlowQueryWarning(v)
  \/ Idle

SpecStore == StoreInit /\ [][StoreNext]_vars

(***************************************************************************)
(* logError, lines 6-32. Texts are sequences of pieces. err is a string    *)
(* (isObject false, text its pieces) or an Error (isObject true, text the  *)
(* pieces of err.message).                                                 *)
(***************************************************************************)
\* a text the pattern of line 15 matches: the position a script error names
ScriptErrorPrefix == "SCRIPT ERROR: citizen:/scripting/lua/scheduler.lua:61: "

\* line 15: err.replace(/SCRIPT ERROR: citizen:[\w\/\.]+:\d+[:\s]+/, ''): the first
\* match is cut out
RECURSIVE replace(_)
replace(text) ==
  IF text = <<>> THEN <<>>
  ELSE IF Head(text) = ScriptErrorPrefix THEN Tail(text)
  ELSE <<Head(text)>> \o replace(Tail(text))

\* line 15
ErrorMessage(err) == IF err.isObject THEN err.text ELSE replace(err.text)

\* the line feed of lines 17-19
LF == "\n"

\* line 18: JSON.stringify of a list of strings
JSONstringify(parameters) == <<"[">> \o parameters \o <<"]">>

\* lines 17-19: query is "" when absent or empty
ErrorOutput(invokingResource, message, query, parameters, includeParameters) ==
  LET head == <<invokingResource, " was unable to execute a query!">>
      withQuery == IF query # "" THEN head \o <<LF, "Query: ", query>> ELSE head
      withParameters == IF includeParameters
                        THEN withQuery \o <<LF>> \o JSONstringify(parameters)
                        ELSE withQuery
  IN withParameters \o <<LF>> \o message

logError(a) ==
  LET message == ErrorMessage(a.err)
      output == ErrorOutput(a.invokingResource, message, a.query, a.parameters,
                            a.includeParameters)
  IN /\ outcome = "idle"
     /\ request' = a
     /\ outcome' = "errorLogged"
     \* lines 21-27
     /\ triggered' = <<[name |-> "oxmysql:error",
                        query |-> a.query, parameters |-> a.parameters,
                        message |-> message, err |-> a.err,
                        resource |-> a.invokingResource]>>
     \* lines 29-31
     /\ IF a.cb /\ a.isPromise
        THEN called' = <<[error |-> "null", result |-> output]>> /\ console' = <<>>
        ELSE called' = <<>> /\ console' = <<[error |-> output]>>
     /\ emitted' = <<>>
     /\ sortedView' = <<>>
     /\ logCalls' = <<>>
     /\ UNCHANGED <<config, now, conn, logStorage, appended>>

\* What the engine or the script runtime reports: a string with or without the
\* script error position, or an Error
Errs ==
  {[isObject |-> FALSE, text |-> <<"syntax error">>],
   [isObject |-> FALSE, text |-> <<ScriptErrorPrefix, "syntax error">>],
   [isObject |-> TRUE, text |-> <<"Unknown column">>]}

\* cb: a callback was passed; isPromise: the caller awaits the result
LogError ==
  \E r \in Resources, cb \in BOOLEAN, isPromise \in BOOLEAN, err \in Errs,
     query \in {"", "SELECT 1"}, includeParameters \in BOOLEAN :
    logError([invokingResource |-> r, cb |-> cb, isPromise |-> isPromise, err |-> err,
              query |-> query, parameters |-> <<"p">>,
              includeParameters |-> includeParameters])

ErrAppendQuery ==
  /\ now < ErrAppends
  /\ \E r \in Resources : LogQuery(r, <<97>>, 2, <<>>)

ErrNext ==
  \/ ErrAppendQuery
  \/ LogError
  \/ Idle

SpecErr == Init /\ [][ErrNext]_vars

(***************************************************************************)
(* The profiler bracket: runProfiler, lines 44-52, and                     *)
(* profileBatchStatements, lines 54-82. Every await of connection.query    *)
(* is a step of its own: the query resolves or rejects, and a rejection    *)
(* leaves the function (neither has a try).                                *)
(***************************************************************************)
\* lines 34-39
profilerStatements ==
  << [name |-> "profiling_history_size", value |-> 0],
     [name |-> "profiling", value |-> 0],
     [name |-> "profiling_history_size", value |-> 100],
     [name |-> "profiling", value |-> 1] >>

\* lines 62-64: the query that reads the profiler rows
selectProfiling == [name |-> "SELECT FORMAT(SUM(DURATION) * 1000, 4)", value |-> 0]

\* the engine executing one SET statement on the session of a connection
Execute(cn, statement) ==
  IF statement.name = "profiling" THEN [cn EXCEPT !.profiling = statement.value]
  ELSE [cn EXCEPT !.historySize = statement.value]

DigitChars == <<"0", "1", "2", "3", "4", "5", "6", "7", "8", "9">>

RECURSIVE Digits(_)
Digits(n) == IF n < 10 THEN <<DigitChars[n + 1]>>
             ELSE Digits(n \div 10) \o <<DigitChars[(n % 10) + 1]>>

RECURSIVE Grouped(_)
Grouped(ds) == IF Len(ds) <= 3 THEN ds
               ELSE Grouped(SubSeq(ds, 1, Len(ds) - 3)) \o <<",">> \o SubSeq(ds, Len(ds) - 2, Len(ds))

\* line 63: FORMAT(x, 4) of the engine, for x = d / 10000 milliseconds: the
\* integer part in groups of three digits set off by commas, and four decimals
FORMAT(d) ==
  Grouped(Digits(d \div 10000)) \o <<".">>
    \o SubSeq(Digits(10000 + (d % 10000)), 2, 5)

IsDigit(ch) == \E i \in 1..10 : DigitChars[i] = ch

DigitValue(ch) == (CHOOSE i \in 1..10 : DigitChars[i] = ch) - 1

RECURSIVE DigitRun(_)
DigitRun(str) == IF str # <<>> /\ IsDigit(Head(str)) THEN 1 + DigitRun(Tail(str)) ELSE 0

RECURSIVE NumberOf(_)
NumberOf(ds) == IF ds = <<>> THEN 0
                ELSE 10 * NumberOf(SubSeq(ds, 1, Len(ds) - 1)) + DigitValue(ds[Len(ds)])

\* lines 73, 79: parseFloat reads the longest prefix that is a decimal number
\* (digits, then a point and digits) and ignores what follows it. The result is
\* in units of 0.0001. A text with no leading digit (NaN) does not occur.
parseFloat(str) ==
  LET n == DigitRun(str)
      rest == SubSeq(str, n + 1, Len(str))
      decimals == IF rest # <<>> /\ Head(rest) = "."
                  THEN SubSeq(rest, 2, 1 + DigitRun(Tail(rest))) ELSE <<>>
      four == SubSeq(decimals \o <<"0", "0", "0", "0">>, 1, 4)
  IN 10000 * NumberOf(SubSeq(str, 1, n)) + NumberOf(four)

\* Durations the engine measures, in units of 0.0001 ms: 2 ms and 1234.5678 ms
Durations == {20000, 12345678}

\* the rows the SELECT of line 63 can return
ProfilerRows ==
  UNION {[1..n -> {[duration |-> FORMAT(d)] : d \in Durations}] : n \in 0..MaxRows}

\* Statement texts: "T", and "q0", "q1", ... for the statements of a transaction
Template == <<84>>

Statement(i) == [query |-> <<113, 48 + i>>, params |-> <<"s", i>>]

\* The batches a caller passes as query and parameters: a template (query is a
\* string, here text) with a list of parameter sets or with null for
\* parameters, or a list of statements (query is an array, here statements).
Batches ==
  {[isString |-> TRUE, text |-> Template, statements |-> <<>>, hasParameters |-> h,
    parameters |-> IF h THEN [i \in 1..n |-> <<"p", i - 1>>] ELSE <<>>] :
      h \in BOOLEAN, n \in {MaxBatch + 1}}
  \cup
  {[isString |-> FALSE, text |-> <<>>, statements |-> [i \in 1..n |-> Statement(i - 1)],
    hasParameters |-> FALSE, parameters |-> <<>>] : n \in 0..MaxBatch}

\* arr[index] of JavaScript: <<>> stands for undefined
At(arr, index) == IF index + 1 \in 1..Len(arr) THEN arr[index + 1] ELSE <<>>

\* lines 71-74: the rows of a template batch, from row i on
RECURSIVE correlateTemplate(_, _, _)
correlateTemplate(w, cn, i) ==
  IF i >= Len(cn.profiler) THEN w
  ELSE correlateTemplate(
         logQuery(w, cn.invokingResource, cn.batch.text,
                  parseFloat(cn.profiler[i + 1].duration),
                  At(cn.batch.parameters, cn.offset + i)),
         cn, i + 1)

\* lines 75-81: the rows of a list of statements, from row i on
RECURSIVE correlateTransaction(_, _, _)
correlateTransaction(w, cn, i) ==
  IF i >= Len(cn.profiler) THEN w
  ELSE LET transaction == At(cn.batch.statements, cn.offset + i)
       IN IF transaction # <<>>
          THEN correlateTransaction(
                 logQuery(w, cn.invokingResource, transaction.query,
                          parseFloat(cn.profiler[i + 1].duration), transaction.params),
                 cn, i + 1)
          ELSE w

\* lines 69-81
correlate(w, cn) ==
  IF Len(cn.profiler) = 0 THEN w
  ELSE IF cn.batch.isString /\ cn.batch.hasParameters THEN correlateTemplate(w, cn, 0)
  ELSE IF ~cn.batch.isString THEN correlateTransaction(w, cn, 0)
  ELSE w

ProfilerEnabledFor_IgnoresAllowList(r) == Truthy(mysql_debug)

\* lines 45, 47
ProfilerEnabledFor(r) ==
  /\ Truthy(mysql_debug)
  /\ ~(mysql_debug.isArray /\ r \notin mysql_debug.list)

\* connection.query is called with a statement and awaited
Issue(cn, statement) == [cn EXCEPT !.issued = Append(@, statement)]

\* A caller takes connection c for a batch of resource r and calls runProfiler.
RunProfiler(c, r) ==
  /\ outcome = "idle"
  /\ conn[c].pc = "free"
  /\ now' = now + 1
  /\ LET cn == [FreeConnection EXCEPT !.invokingResource = r,
                                      !.profiling = conn[c].profiling,
                                      !.historySize = conn[c].historySize]
     IN conn' = [conn EXCEPT ![c] =
          IF ~ProfilerEnabledFor(r)
          THEN [cn EXCEPT !.pc = "batch"]
          ELSE [Issue(cn, profilerStatements[1]) EXCEPT !.pc = "runProfiler", !.k = 1]]
  /\ UNCHANGED <<config, logStorage, appended, effects>>

\* line 49: the awaited statement of runProfiler resolves
RunProfilerResolved(c) ==
  /\ outcome = "idle"
  /\ conn[c].pc = "runProfiler"
  /\ LET cn == Execute(conn[c], profilerStatements[conn[c].k])
     IN conn' = [conn EXCEPT ![c] =
          IF cn.k < Len(profilerStatements)
          THEN [Issue(cn, profilerStatements[cn.k + 1]) EXCEPT !.k = cn.k + 1]
          ELSE [cn EXCEPT !.pc = "batch", !.hasProfiler = TRUE]]
  /\ UNCHANGED <<config, now, logStorage, appended, effects>>

\* lines 49, 62, 67: the awaited query rejects and the function throws
QueryRejected(c) ==
  /\ outcome = "idle"
  /\ conn[c].pc \in {"runProfiler", "select", "reset"}
  /\ conn' = [conn EXCEPT ![c].pc = "failed"]
  /\ UNCHANGED <<config, now, logStorage, appended, effects>>

\* The batch has run on a profiled connection and the caller calls
\* profileBatchStatements, which issues the SELECT of lines 61-65.
ProfileBatchStatements(c, batch, offset) ==
  /\ outcome = "idle"
  /\ conn[c].pc = "batch"
  /\ conn[c].hasProfiler
  /\ conn' = [conn EXCEPT ![c] =
       [Issue(conn[c], selectProfiling) EXCEPT !.pc = "select", !.batch = batch, !.offset = offset]]
  /\ UNCHANGED <<config, now, logStorage, appended, effects>>

SelectResolved_CorrelatesAtOnce(c, rows) ==
  /\ outcome = "idle"
  /\ conn[c].pc = "select"
  /\ LET cn == [Issue(conn[c], profilerStatements[1]) EXCEPT
                  !.pc = "reset", !.k = 1, !.profiler = rows]
         w == correlate(World, cn)
     IN /\ conn' = [conn EXCEPT ![c] = cn]
        /\ logStorage' = w.store
        /\ appended' = w.hist
  /\ UNCHANGED <<config, now, effects>>

\* line 61: the SELECT resolves with the profiler rows; line 67 issues the first
\* statement of the reset
SelectResolved(c, rows) ==
  /\ outcome = "idle"
  /\ conn[c].pc = "select"
  /\ conn' = [conn EXCEPT ![c] =
       [Issue(conn[c], profilerStatements[1]) EXCEPT !.pc = "reset", !.k = 1, !.profiler = rows]]
  /\ UNCHANGED <<config, now, logStorage, appended, effects>>

\* line 67: the awaited statement of the reset resolves; after the last one
\* lines 69-81 run to the end without another await
ResetResolved(c) ==
  /\ outcome = "idle"
  /\ conn[c].pc = "reset"
  /\ LET cn == Execute(conn[c], profilerStatements[conn[c].k])
     IN IF cn.k < Len(profilerStatements)
        THEN /\ conn' = [conn EXCEPT ![c] =
                  [Issue(cn, profilerStatements[cn.k + 1]) EXCEPT !.k = cn.k + 1]]
             /\ UNCHANGED <<logStorage, appended, effects>>
        ELSE LET w == correlate(World, cn)
             IN /\ conn' = [conn EXCEPT ![c] = [cn EXCEPT !.pc = "done"]]
                /\ logStorage' = w.store
                /\ appended' = w.hist
                /\ logCalls' = w.calls
                /\ console' = w.console
                /\ request' = [cn EXCEPT !.pc = "done"]
                /\ outcome' = "correlated"
                /\ emitted' = <<>>
                /\ sortedView' = <<>>
                /\ UNCHANGED <<triggered, called>>
  /\ UNCHANGED <<config, now>>

\* The caller gives the connection back to the pool: after
\* profileBatchStatements returned or threw, after runProfiler threw, or after
\* the batch when runProfiler did not enable profiling.
Release(c) ==
  /\ outcome = "idle"
  /\ \/ conn[c].pc \in {"done", "failed"}
     \/ conn[c].pc = "batch" /\ ~conn[c].hasProfiler
  /\ conn' = [conn EXCEPT ![c].pc = "free"]
  /\ UNCHANGED <<config, now, logStorage, appended, effects>>

ProfInit ==
  /\ mysql_ui \in BOOLEAN
  /\ mysql_log_size \in 1..MaxLogSize
  /\ mysql_debug \in Debugs
  /\ mysql_slow_query_warning \in ProfSlowWarnings
  /\ InitState

StartBracket ==
  /\ now < MaxBrackets
  /\ \E c \in DOMAIN conn, r \in Resources : RunProfiler(c, r)

CallProfileBatchStatements ==
  \E c \in DOMAIN conn, batch \in Batches, offset \in 0..MaxOffset :
    ProfileBatchStatements(c, batch, offset)

ProfNext ==
  \/ StartBracket
  \/ \E c \in DOMAIN conn : RunProfilerResolved(c)
  \/ \E c \in DOMAIN conn : QueryRejected(c)
  \/ CallProfileBatchStatements
  \/ \E c \in DOMAIN conn, rows \in ProfilerRows : SelectResolved(c, rows)
  \/ \E c \in DOMAIN conn : ResetResolved(c)
  \/ \E c \in DOMAIN conn : Release(c)
  \/ Idle

SpecProf == ProfInit /\ [][ProfNext]_vars

(***************************************************************************)
(* SpecConc: two pool connections, each running a profiler bracket for a   *)
(* batch of its own, with debug mode on and the dashboard enabled. The     *)
(* awaited queries of the two brackets resolve in any order.               *)
(***************************************************************************)
\* a template with its parameter sets, and a list of MaxBatch statements
ConcBatches ==
  {b \in Batches : (b.isString /\ b.hasParameters) \/ Len(b.statements) = MaxBatch}

\* the profiler rows of a batch of MaxRows statements of 2 ms each
ConcRows == {[i \in 1..MaxRows |-> [duration |-> FORMAT(20000)]]}

ConcInit ==
  /\ mysql_ui = TRUE
  /\ mysql_log_size = MaxLogSize
  /\ mysql_debug = [isArray |-> FALSE, on |-> TRUE, list |-> {}]
  /\ mysql_slow_query_warning \in ProfSlowWarnings
  /\ now = 0
  /\ conn = [c \in {"c1", "c2"} |-> FreeConnection]
  /\ logStorage = <<>>
  /\ appended = [r \in Resources |-> <<>>]
  /\ request = <<>>
  /\ outcome = "idle"
  /\ emitted = <<>>
  /\ sortedView = <<>>
  /\ logCalls = <<>>
  /\ console = <<>>
  /\ triggered = <<>>
  /\ called = <<>>

ConcStartBracket ==
  /\ now < ConcBrackets
  /\ \E c \in DOMAIN conn, r \in Resources : RunProfiler(c, r)

ConcCallProfileBatchStatements ==
  \E c \in DOMAIN conn, batch \in ConcBatches : ProfileBatchStatements(c, batch, 0)

ConcNext ==
  \/ ConcStartBracket
  \/ \E c \in DOMAIN conn : RunProfilerResolved(c)
  \/ \E c \in DOMAIN conn : QueryRejected(c)
  \/ ConcCallProfileBatchStatements
  \/ \E c \in DOMAIN conn, rows \in ConcRows : SelectResolved(c, rows)
  \/ \E c \in DOMAIN conn : ResetResolved(c)
  \/ \E c \in DOMAIN conn : Release(c)
  \/ Idle

SpecConc == ConcInit /\ [][ConcNext]_vars

(***************************************************************************)
(* SpecOff: the dashboard is disabled. Callers log queries directly and    *)
(* run profiler brackets, under every debug mode.                          *)
(***************************************************************************)
OffInit ==
  /\ mysql_ui = FALSE
  /\ mysql_log_size \in 1..MaxLogSize
  /\ mysql_debug \in Debugs
  /\ mysql_slow_query_warning \in ProfSlowWarnings
  /\ InitState

OffAppendQuery ==
  /\ now < OffCalls
  /\ \E r \in Resources, t \in Durations, p \in Params : LogQuery(r, Template, t, p)

OffStartBracket ==
  /\ now < OffCalls
  /\ \E c \in DOMAIN conn, r \in Resources : RunProfiler(c, r)

OffNext ==
  \/ OffAppendQuery
  \/ OffStartBracket
  \/ \E c \in DOMAIN conn : RunProfilerResolved(c)
  \/ \E c \in DOMAIN conn : QueryRejected(c)
  \/ CallProfileBatchStatements
  \/ \E c \in DOMAIN conn, rows \in ProfilerRows : SelectResolved(c, rows)
  \/ \E c \in DOMAIN conn : ResetResolved(c)
  \/ \E c \in DOMAIN conn : Release(c)
  \/ Idle

SpecOff == OffInit /\ [][OffNext]_vars

(***************************************************************************)
(* Properties of the log store.                                            *)
(***************************************************************************)

\* C1: after N appends to a resource with the dashboard enabled, under capacity
\* mysql_log_size, the resource's log holds exactly min(N, mysql_log_size)
\* records; in particular never more than mysql_log_size.
C1_LengthIsMinOfAppendsAndCapacity ==
  \A r \in Resources :
    Len(LogOrEmpty(logStorage, r)) = MinOf(Len(appended[r]), mysql_log_size)

IsSuffix(log, hist) ==
  /\ Len(log) <= Len(hist)
  /\ \A i \in 1..Len(log) : log[i] = hist[Len(hist) - Len(log) + i]

LogIsSuffixOfAppended ==
  \A r \in Resources : IsSuffix(LogOrEmpty(logStorage, r), appended[r])

\* one step: a log changes only by an append, which adds the appended record at
\* the end and drops nothing or the oldest record
AppendStep ==
  \A r \in Resources :
    LET old == LogOrEmpty(logStorage, r)
        new == LogOrEmpty(logStorage', r)
    IN \/ new = old /\ appended'[r] = appended[r]
       \/ /\ Len(appended'[r]) = Len(appended[r]) + 1
          /\ SubSeq(appended'[r], 1, Len(appended[r])) = appended[r]
          /\ new # <<>>
          /\ new[Len(new)] = appended'[r][Len(appended'[r])]
          /\ \/ SubSeq(new, 1, Len(new) - 1) = old
             \/ old # <<>> /\ SubSeq(new, 1, Len(new) - 1) = Tail(old)

\* C2: a resource's log is always a contiguous suffix, in order, of the records
\* appended to it; one append adds one record at the end and removes at most the
\* oldest; nothing is removed or changed otherwise.
C2_LogIsSuffixAndAppendEvictsOldest == []LogIsSuffixOfAppended /\ [][AppendStep]_vars

\* an append has evicted: the log is a proper, non-empty suffix of the history
C2_Witness ==
  \E r \in Resources :
    /\ Len(LogOrEmpty(logStorage, r)) > 1
    /\ Len(appended[r]) > Len(LogOrEmpty(logStorage, r))

\* one step: every stored record was stored before, unchanged, or is recorded by
\* this step with the flag the threshold of this step gives it
SlowFlagStep ==
  \A r \in Resources :
    LET old == LogOrEmpty(logStorage, r)
        new == LogOrEmpty(logStorage', r)
    IN \A i \in 1..Len(new) :
         \/ \E j \in 1..Len(old) : old[j] = new[i]
         \/ /\ new[i].date = now
            /\ new[i].slow <=> (new[i].executionTime >= mysql_slow_query_warning)

\* C11: a stored record is flagged slow iff its execution time was greater than
\* or equal to the threshold at the moment it was recorded; the flag is fixed at
\* insertion and never re-evaluated.
C11_SlowFlagFixedAtInsertion == [][SlowFlagStep]_vars

\* two stored records of the same time, equal to the threshold of the first and
\* just below the threshold of the second: the first is flagged under a current
\* threshold above its time, the second is not
C11_Witness ==
  \E r \in Resources :
    LET log == LogOrEmpty(logStorage, r)
    IN /\ Len(log) = 2
       /\ log[1].executionTime = 2 /\ log[1].slow
       /\ log[2].executionTime = 2 /\ ~log[2].slow
       /\ mysql_slow_query_warning = 3

(***************************************************************************)
(* Properties of the page handler.                                         *)
(***************************************************************************)
FetchOutcomes == {"returned", "threw", "emitted"}

\* the last handler run was a page request that passed line 187
Accepted == outcome \in FetchOutcomes /\ request.resourceIsString /\ request.aceAllowed

EmptyViewResponse ==
  [queries |-> <<>>, pageCount |-> 0, resourceQueriesCount |-> 0,
   resourceSlowQueries |-> 0, resourceTime |-> 0]

\* C3: an allowed page request for a resource with no recorded queries, with or
\* without a search string, ends without error and emits the empty response.
C3_UnknownResourceGetsEmptyResponse ==
  (Accepted /\ ~HasKey(logStorage, request.resource))
    => (outcome = "emitted" /\ emitted = <<EmptyViewResponse>>)

\* C4: a page request without the capability, or whose resource is no string, or
\* for an unknown resource with a search filter, emits nothing and throws nothing.
C4_MalformedRequestDroppedSilently ==
  (/\ outcome \in FetchOutcomes
   /\ \/ ~request.aceAllowed
      \/ ~request.resourceIsString
      \/ ~HasKey(logStorage, request.resource) /\ request.search # <<>>)
    => (emitted = <<>> /\ outcome # "threw")

\* case folding of one code unit, and case-insensitive containment
Fold(c) == IF c \in 65..90 THEN c + 32 ELSE c

Matches(rec, search) ==
  \E k \in 0..Len(rec.query) :
    /\ k + Len(search) <= Len(rec.query)
    /\ \A i \in 1..Len(search) : Fold(rec.query[k + i]) = Fold(search[i])

\* positions of the requested resource's log that pass the request's filter
FilteredPositions ==
  LET log == Log(logStorage, request.resource)
  IN {i \in 1..Len(log) : Matches(log[i], request.search)}

RECURSIVE TimeOver(_, _)
TimeOver(log, S) ==
  IF S = {} THEN 0
  ELSE LET i == CHOOSE x \in S : TRUE
       IN log[i].executionTime + TimeOver(log, S \ {i})

\* C5: the aggregates of an emitted response are those of the whole filtered
\* set, whatever the sort and the page: its size, the sum of its execution
\* times and the number of its records flagged slow.
C5_AggregatesOverFilteredSet ==
  outcome = "emitted" =>
    LET log == Log(logStorage, request.resource)
        F == FilteredPositions
        resp == emitted[1]
    IN /\ resp.resourceQueriesCount = Cardinality(F)
       /\ resp.resourceTime = TimeOver(log, F)
       /\ resp.resourceSlowQueries = Cardinality({i \in F : log[i].slow})

\* a filtered, sorted request whose page is shorter than the filtered set
C5_Witness ==
  /\ outcome = "emitted"
  /\ request.search # <<>>
  /\ request.sortBy # <<>>
  /\ Cardinality(FilteredPositions) < Len(Log(logStorage, request.resource))
  /\ Len(emitted[1].queries) = 1
  /\ emitted[1].resourceQueriesCount = 11
  /\ emitted[1].resourceSlowQueries > 1

PositionIn(log, rec) == CHOOSE i \in 1..Len(log) : log[i] = rec

\* view is the filtered set in the order the request asks for
OrderedAsRequested(view, log) ==
  \A i, j \in 1..Len(view) : i < j =>
    IF request.sortBy = <<>>
    THEN PositionIn(log, view[i]) < PositionIn(log, view[j])
    ELSE LET sort == request.sortBy[1]
             lo == IF sort.desc THEN view[j] ELSE view[i]
             hi == IF sort.desc THEN view[i] ELSE view[j]
         IN CASE sort.id = "query" -> ~StrGreater(lo.query, hi.query)
              [] sort.id = "executionTime" -> lo.executionTime <= hi.executionTime
              [] OTHER -> TRUE

\* C6: the page of an emitted response is the part [10p, 10p + 10) of the
\* filtered and, if asked, sorted sequence: min(10, max(0, L - 10p)) records,
\* none beyond the end, and pageCount is the ceiling of L / 10.
C6_PageIsSliceOfView ==
  outcome = "emitted" =>
    LET log == Log(logStorage, request.resource)
        F == FilteredPositions
        L == Cardinality(F)
        p == request.pageIndex
        resp == emitted[1]
    IN /\ Len(sortedView) = L
       /\ {sortedView[i] : i \in 1..L} = {log[i] : i \in F}
       /\ OrderedAsRequested(sortedView, log)
       /\ Len(resp.queries) = MinOf(10, MaxOf(0, L - 10 * p))
       /\ \A i \in 1..Len(resp.queries) : resp.queries[i] = sortedView[10 * p + i]
       /\ 10 * resp.pageCount >= L
       /\ 10 * (resp.pageCount - 1) < L

\* 12 records, sorted by executionTime descending, page 1: 2 records of 2 pages
C6_Witness ==
  /\ outcome = "emitted"
  /\ request.pageIndex = 1
  /\ request.sortBy = <<[id |-> "executionTime", desc |-> TRUE]>>
  /\ emitted[1].resourceQueriesCount = 12
  /\ Len(emitted[1].queries) = 2
  /\ emitted[1].pageCount = 2

\* C7: sorted by query text, two records of equal text keep their insertion
\* order in ascending mode and come in the reverse of it in descending mode.
C7_QuerySortKeepsTieOrder ==
  (outcome = "emitted" /\ request.sortBy # <<>> /\ request.sortBy[1].id = "query") =>
    LET log == Log(logStorage, request.resource)
    IN \A i, j \in 1..Len(sortedView) :
         (i < j /\ sortedView[i].query = sortedView[j].query) =>
           IF request.sortBy[1].desc
           THEN PositionIn(log, sortedView[i]) > PositionIn(log, sortedView[j])
           ELSE PositionIn(log, sortedView[i]) < PositionIn(log, sortedView[j])

(***************************************************************************)
(* Properties of the summary command.                                      *)
(***************************************************************************)
RECURSIVE SumOf(_, _)
SumOf(f, S) ==
  IF S = {} THEN 0
  ELSE LET x == CHOOSE y \in S : TRUE
       IN f[x] + SumOf(f, S \ {x})

\* C12: an accepted summary request emits one summary over all resources of
\* the store: totalQueries the sum of the log lengths, totalTime the sum of all
\* execution times, slowQueries the number of flagged records, and chartData one
\* label and one (queries, time) pair per resource, at the same position, the
\* labels being the resources list.
C12_SummaryOverAllResources ==
  outcome = "summarised" =>
    LET resp == emitted[1].payload
        len == [r \in Keys |-> Len(Log(logStorage, r))]
        time == [r \in Keys |->
                  TimeOver(Log(logStorage, r), 1..Len(Log(logStorage, r)))]
        slow == [r \in Keys |->
                  Cardinality({i \in 1..Len(Log(logStorage, r)) : Log(logStorage, r)[i].slow})]
        labels == resp.chartData.labels
        data == resp.chartData.data
    IN /\ Len(emitted) = 1
       /\ emitted[1].target = request.source
       /\ resp.totalQueries = SumOf(len, Keys)
       /\ resp.totalTime = SumOf(time, Keys)
       /\ resp.slowQueries = SumOf(slow, Keys)
       /\ labels = resp.resources
       /\ Len(labels) = Cardinality(Keys)
       /\ {labels[i] : i \in 1..Len(labels)} = Keys
       /\ Len(data) = Len(labels)
       /\ \A i \in 1..Len(labels) :
            /\ data[i].queries = len[labels[i]]
            /\ data[i].time = time[labels[i]]

\* a summary of two resources with logs of different lengths and a slow record
C12_Witness ==
  /\ outcome = "summarised"
  /\ emitted[1].payload.resources = <<"r2", "r1">>
  /\ emitted[1].payload.totalQueries = 3
  /\ emitted[1].payload.slowQueries = 1
  /\ emitted[1].payload.chartData.data[1].queries = 1
  /\ emitted[1].payload.chartData.data[2].queries = 2
  /\ emitted[1].payload.chartData.data[2].time < emitted[1].payload.totalTime

\* C13: a summary request is rejected silently, with no message to any caller,
\* when the dashboard is disabled or the request comes from no capable client,
\* a server-side source below 1 included.
C13_SummaryRejectedSilently ==
  (/\ outcome \in {"denied", "rejected", "summarised"}
   /\ \/ ~mysql_ui
      \/ ~request.aceAllowed
      \/ request.source < 1)
    => (emitted = <<>> /\ console = <<>>)

(***************************************************************************)
(* Properties of logError.                                                 *)
(***************************************************************************)
\* the message was handed to the callback, once, and not printed
DeliveredByCallback ==
  /\ Len(called) = 1
  /\ called[1].result[Len(called[1].result)] = triggered[1].message[Len(triggered[1].message)]
  /\ console = <<>>

\* the message was printed, once, and no callback was called
DeliveredOnConsole ==
  /\ Len(console) = 1
  /\ console[1].error[Len(console[1].error)] = triggered[1].message[Len(triggered[1].message)]
  /\ called = <<>>

\* C14: a failure reported through logError emits exactly one error event with
\* the query, parameters, message, error and resource, and delivers the message
\* exactly once: through the callback if one was supplied, otherwise on the
\* console.
C14_ErrorEventAndOneDelivery ==
  outcome = "errorLogged" =>
    /\ Len(triggered) = 1
    /\ triggered[1].query = request.query
    /\ triggered[1].parameters = request.parameters
    /\ triggered[1].err = request.err
    /\ triggered[1].resource = request.invokingResource
    /\ IF request.cb THEN DeliveredByCallback ELSE DeliveredOnConsole

(***************************************************************************)
(* Properties of the profiler bracket.                                     *)
(***************************************************************************)
\* the duration a profiler row reports: the one the engine formatted into it
RowDuration(row) == CHOOSE d \in Durations : FORMAT(d) = row.duration

\* the last r records appended to the resource are these calls' records, in order
AppendedInOrder(res, calls) ==
  LET hist == appended[res]
      r == Len(calls)
  IN /\ Len(hist) >= r
     /\ \A i \in 1..r :
          /\ hist[Len(hist) - r + i].query = calls[i].query
          /\ hist[Len(hist) - r + i].executionTime = calls[i].executionTime

\* C8: for a template batch, correlation logs one entry per profiler row, in row
\* order, to the invoking resource: row i with the template text, the row's
\* duration and the parameter set at index offset + i.
C8_TemplateBatchLogsEveryRow ==
  (outcome = "correlated" /\ mysql_ui /\ request.batch.isString /\ request.batch.hasParameters) =>
    LET rows == request.profiler
        expected == [i \in 1..Len(rows) |->
                      [resource |-> request.invokingResource,
                       query |-> request.batch.text,
                       executionTime |-> RowDuration(rows[i]),
                       parameters |-> At(request.batch.parameters, request.offset + i - 1)]]
    IN /\ logCalls = expected
       /\ AppendedInOrder(request.invokingResource, expected)

\* C9: for a list of n statements, offset k and r rows, correlation logs exactly
\* min(r, max(0, n - k)) entries, entry i with the text of statement k + i and
\* the duration of row i, and nothing for the rows that have no statement.
C9_TransactionBatchLogsMatchedRows ==
  (outcome = "correlated" /\ mysql_ui /\ ~request.batch.isString) =>
    LET rows == request.profiler
        n == Len(request.batch.statements)
        k == request.offset
        count == MinOf(Len(rows), MaxOf(0, n - k))
        expected == [i \in 1..count |->
                      [resource |-> request.invokingResource,
                       query |-> request.batch.statements[k + i].query,
                       executionTime |-> RowDuration(rows[i]),
                       parameters |-> request.batch.statements[k + i].params]]
    IN /\ logCalls = expected
       /\ AppendedInOrder(request.invokingResource, expected)

\* the four reset statements were issued, in order, after the SELECT
ResetIssued(cn) ==
  \E i \in 1..Len(cn.issued) :
    /\ cn.issued[i] = selectProfiling
    /\ SubSeq(cn.issued, i + 1, Len(cn.issued)) = profilerStatements

\* C10: once runProfiler has enabled profiling on a connection, the bracket does
\* not end, normally or by a failing query, without the reset statements having
\* been issued on that connection.
C10_ResetOnEveryExitPath ==
  \A c \in DOMAIN conn :
    (conn[c].hasProfiler /\ conn[c].pc \in {"done", "failed"}) => ResetIssued(conn[c])

\* the last statement issued on the connection that sets profiling
LastProfilingControl(cn) ==
  LET S == {i \in 1..Len(cn.issued) : cn.issued[i].name = "profiling"}
  IN cn.issued[CHOOSE i \in S : \A j \in S : j <= i]

\* C15: when profileBatchStatements completes normally, the reset after the read
\* of the profiler rows leaves profiling disabled on the connection: the last
\* profiling-control statement of the bracket turns profiling off.
C15_ResetLeavesProfilingDisabled ==
  \A c \in DOMAIN conn :
    conn[c].pc = "done" =>
      /\ LastProfilingControl(conn[c]).value = 0
      /\ conn[c].profiling = 0

\* debug mode is off, or an allow-list without the resource
DebugOffFor(r) ==
  \/ ~mysql_debug.isArray /\ ~mysql_debug.on
  \/ mysql_debug.isArray /\ r \notin mysql_debug.list

\* C20: runProfiler issues no statement and reports profiling as not active when
\* debug mode is off or an allow-list without the invoking resource; otherwise
\* it issues the four profiling-control statements in their order, each after
\* the one before it has resolved, and only then reports profiling as active.
C20_RunProfilerIssuesNoneOrAllFour ==
  \A c \in DOMAIN conn :
    LET cn == conn[c]
    IN /\ cn.pc = "runProfiler" =>
            /\ ~DebugOffFor(cn.invokingResource)
            /\ ~cn.hasProfiler
            /\ cn.k \in 1..4
            /\ cn.issued = SubSeq(profilerStatements, 1, cn.k)
            /\ cn.k \in {2, 3} => cn.historySize = 0
            /\ cn.k \in {3, 4} => cn.profiling = 0
            /\ cn.k = 4 => cn.historySize = 100
       /\ cn.pc = "batch" =>
            IF DebugOffFor(cn.invokingResource)
            THEN cn.issued = <<>> /\ ~cn.hasProfiler
            ELSE /\ cn.issued =
                      << [name |-> "profiling_history_size", value |-> 0],
                         [name |-> "profiling", value |-> 0],
                         [name |-> "profiling_history_size", value |-> 100],
                         [name |-> "profiling", value |-> 1] >>
                 /\ cn.hasProfiler
                 /\ cn.profiling = 1
                 /\ cn.historySize = 100

\* runProfiler has returned true for a resource of the allow-list
C20_Witness ==
  \E c \in DOMAIN conn :
    /\ conn[c].pc = "batch"
    /\ conn[c].hasProfiler
    /\ Len(conn[c].issued) = 4
    /\ mysql_debug.isArray
    /\ conn[c].invokingResource \in mysql_debug.list

(***************************************************************************)
(* Frame properties of the log store.                                      *)
(***************************************************************************)
ViewOutcomes == FetchOutcomes \cup {"denied", "rejected", "summarised"}

\* one step: a page request or a summary request leaves the store as it was
ViewStep ==
  (outcome = "idle" /\ outcome' \in ViewOutcomes) => logStorage' = logStorage

\* C16: building a view never changes the log store: after any page request,
\* with or without search, with any sort, accepted or rejected, and after any
\* summary request, every log holds the same records in the same order.
C16_ViewsLeaveStoreUnchanged == [][ViewStep]_vars

\* a page sorted without search came out in another order than the stored one,
\* and the stored log is still in the order of its appends
C16_Witness ==
  /\ outcome = "emitted"
  /\ request.sortBy # <<>>
  /\ request.search = <<>>
  /\ Len(sortedView) = 2
  /\ sortedView # Log(logStorage, request.resource)
  /\ IsSuffix(Log(logStorage, request.resource), appended[request.resource])

\* one step: a log changes, and a key appears, only for the resource the step
\* appends to; a key appears with the first append to its resource
FrameStep ==
  \A q \in Resources :
    LET appendsTo == /\ outcome = "idle"
                     /\ outcome' = "logged"
                     /\ logCalls'[1].resource = q
    IN /\ ~appendsTo =>
            /\ HasKey(logStorage', q) <=> HasKey(logStorage, q)
            /\ LogOrEmpty(logStorage', q) = LogOrEmpty(logStorage, q)
       /\ (HasKey(logStorage', q) /\ ~HasKey(logStorage, q)) =>
            /\ appendsTo
            /\ appended[q] = <<>>
            /\ Len(Log(logStorage', q)) = 1

\* C18: an append to one resource leaves the logs of all other resources as
\* they were, eviction included; a resource's log is created only by the first
\* append to that resource.
C18_AppendLeavesOtherLogsUnchanged == [][FrameStep]_vars

\* the second resource's log has lost its oldest record to an eviction while the
\* log of the resource that got its key first still holds its only record
C18_Witness ==
  /\ Len(logStorage) = 2
  /\ Len(appended[logStorage[2].resource]) > Len(logStorage[2].queries)
  /\ Len(logStorage[1].queries) = 1
  /\ logStorage[1].queries = appended[logStorage[1].resource]

\* C19: while the dashboard is disabled no operation modifies the log store:
\* after any sequence of logQuery and profileBatchStatements calls the store
\* is empty, whatever the execution times, debug mode and slow threshold.
C19_DisabledDashboardStoresNothing ==
  ~mysql_ui => (logStorage = <<>> /\ \A r \in Resources : appended[r] = <<>>)

\* a slow query was logged directly and printed, after a bracket whose
\* correlation had rows to log, and the store is empty
C19_Witness ==
  /\ ~mysql_ui
  /\ outcome = "logged"
  /\ Len(logCalls) = 1
  /\ logCalls[1].executionTime >= mysql_slow_query_warning
  /\ console # <<>>
  /\ \E c \in DOMAIN conn :
       /\ conn[c].pc = "done"
       /\ Len(conn[c].profiler) = 2
       /\ conn[c].batch.isString /\ conn[c].batch.hasParameters
  /\ logStorage = <<>>

(***************************************************************************)
(* Brackets in flight on several connections.                              *)
(***************************************************************************)
\* the records of the calls, as the history holds them
RecordsOf(calls) ==
  [i \in 1..Len(calls) |->
    [query |-> calls[i].query, executionTime |-> calls[i].executionTime]]

\* the last n records of a history, without their dates and flags
LastOf(hist, n) ==
  [i \in 1..n |->
    [query |-> hist[Len(hist) - n + i].query,
     executionTime |-> hist[Len(hist) - n + i].executionTime]]

\* connection c takes, in this step, the last step of profileBatchStatements:
\* its SELECT and its four reset statements have been issued and the last of
\* them resolves
CompletesCall(c) ==
  /\ conn[c].pc = "reset"
  /\ conn[c].k = Len(profilerStatements)
  /\ ResetIssued(conn[c])
  /\ conn'[c].pc = "done"
  /\ \A d \in DOMAIN conn \ {c} : conn'[d] = conn[d]

\* one step: the store and the histories change only in the last step of one
\* call, which appends all of its entries, in row order, to its resource alone
ConcStep ==
  (logStorage' # logStorage \/ appended' # appended) =>
    \E c \in DOMAIN conn :
      LET r == conn[c].invokingResource
          n == Len(logCalls')
      IN /\ CompletesCall(c)
         /\ n = IF conn[c].batch.isString THEN Len(conn[c].profiler)
                ELSE MinOf(Len(conn[c].profiler), Len(conn[c].batch.statements))
         /\ \A i \in 1..n : logCalls'[i].resource = r
         /\ Len(appended'[r]) = Len(appended[r]) + n
         /\ SubSeq(appended'[r], 1, Len(appended[r])) = appended[r]
         /\ LastOf(appended'[r], n) = RecordsOf(logCalls')
         /\ \A q \in Resources \ {r} :
              /\ appended'[q] = appended[q]
              /\ LogOrEmpty(logStorage', q) = LogOrEmpty(logStorage, q)

\* C17: with several profileBatchStatements calls in flight on different
\* connections, a call touches the log store only after its SELECT and its reset
\* statements have resolved, and then appends all its entries in one step: they
\* are adjacent and in row order in the history, never interleaved with another
\* call's.
C17_CallsAppendAtomically == [][ConcStep]_vars

\* two calls for one resource, both in flight when the second bracket had begun
\* (all four records carry the date of that moment): the entries of the list of
\* statements, then those of the template
C17_Witness ==
  \E r \in Resources :
    /\ Len(appended[r]) = 4
    /\ \A i \in 1..4 : appended[r][i].date = 2
    /\ appended[r][1].query = Statement(0).query
    /\ appended[r][2].query = Statement(1).query
    /\ appended[r][3].query = Template
    /\ appended[r][4].query = Template
    /\ \A c \in DOMAIN conn : conn[c].pc = "done"

====
